---- MODULE Spec2Model ----
(***************************************************************************)
(* codegrinder: the commit session lifecycle                                *)
(* (src/src/codegrinder/commits.go) as a state machine over the commits     *)
(* table, and the library functions of the shared model and of the grind    *)
(* client (src/types/problem.go, src/unnamed/part_000), each applied to     *)
(* arguments drawn from bounded sets.                                       *)
(*                                                                          *)
(* Time is counted in minutes.  A row of the commits table is a record with *)
(* the fields of the Go struct Commit.                                      *)
(***************************************************************************)
EXTENDS Integers, Sequences, FiniteSets, TLC

VARIABLES
    commits,    \* the commits table: a set of rows, primary key ID
    nextID,     \* the next value of the serial primary key
    clock,      \* wall clock read by time.Now()
    resp,       \* the last request served and its response
    inflight,   \* requests whose transaction is open (interleaved runs only)
    call        \* the library function being evaluated: arguments, position, result

vars == <<commits, nextID, clock, resp, inflight, call>>

----------------------------------------------------------------------------
(* Program constants *)

openCommitTimeout == 20

StatusOK == 200
StatusBadRequest == 400
StatusNotFound == 404
StatusInternalServerError == 500

transcriptEventCountLimit == 500
transcriptDataLimit == 100000

(* Bounds of the model *)

MaxClock == 21
MaxID == 2
MaxSteps == 2
MaxLen == 4

----------------------------------------------------------------------------
(* Input domains *)

Users == {1}

\* rows of the assignments table: assignment 1 belongs to user 1,
\* assignment 2 to user 2
assignments == {[ID |-> 1, UserID |-> 1], [ID |-> 2, UserID |-> 2]}

AssignmentIDs == {1, 2}

Steps == {1, 2}

NoFiles == <<>>
FilesA == [f \in {"main.py"} |-> "v1"]
FilesB == [f \in {"main.py"} |-> "v2"]

nil == "nil"

\* what a request body carries besides the step number and the grading
\* result: the files, and the fields the handler passes through (Action,
\* Comment, Score) or overwrites (ID, AssignmentID, UserID, CreatedAt,
\* UpdatedAt)
Contents ==
    { [Submission |-> NoFiles, ID |-> 0, AssignmentID |-> 0, UserID |-> 0,
       Action |-> "", Comment |-> "", Score |-> 0, CreatedAt |-> 0, UpdatedAt |-> 0],
      [Submission |-> FilesA, ID |-> 1, AssignmentID |-> 2, UserID |-> 2,
       Action |-> "", Comment |-> "", Score |-> 0, CreatedAt |-> 21, UpdatedAt |-> 1],
      [Submission |-> FilesB, ID |-> 0, AssignmentID |-> 0, UserID |-> 0,
       Action |-> "grade", Comment |-> "c", Score |-> 1, CreatedAt |-> 0, UpdatedAt |-> 0] }

\* an execution event of a transcript carrying n bytes of data
EventMessage(n) == [Event |-> "exec", Data |-> n]

\* the grading result and the closed flag of a request body
Gradings ==
    { [ReportCard |-> nil, Transcript |-> <<>>, Closed |-> FALSE],
      [ReportCard |-> nil, Transcript |-> <<>>, Closed |-> TRUE],
      [ReportCard |-> "passed", Transcript |-> <<>>, Closed |-> TRUE],
      [ReportCard |-> nil, Transcript |-> <<EventMessage(1)>>, Closed |-> FALSE] }

Payload(e, step, g) ==
    [ID |-> e.ID, AssignmentID |-> e.AssignmentID, ProblemStepNumber |-> step,
     UserID |-> e.UserID, Action |-> e.Action, Closed |-> g.Closed,
     Comment |-> e.Comment, Score |-> e.Score, ReportCard |-> g.ReportCard,
     Submission |-> e.Submission, Transcript |-> g.Transcript,
     CreatedAt |-> e.CreatedAt, UpdatedAt |-> e.UpdatedAt]

\* request bodies of the runs that follow the session of one assignment
Payloads ==
    { Payload(e, step, g) :
        e \in {c \in Contents : c.Submission # FilesB}, step \in Steps, g \in Gradings }

\* request bodies of the runs in which persistence operations fail
PayloadsMayFail ==
    { Payload(e, step, g) :
        e \in {c \in Contents : c.Submission # FilesB}, step \in Steps,
        g \in {x \in Gradings : x.Transcript = <<>> /\ x.Closed = (x.ReportCard # nil)} }

\* request bodies of the runs in which requests interleave
PayloadsInterleaved ==
    { Payload(e, step, g) :
        e \in {c \in Contents : c.Submission = FilesA}, step \in Steps,
        g \in {x \in Gradings : x.Transcript = <<>> /\ x.Closed = (x.ReportCard # nil)} }

\* the persistence operation that returns an error in this request, if any
Failures == {"none", "assignments", "open", "update", "save"}

\* the readings of the clock: the start, and from the timeout on each
\* multiple of the timeout and the minute after it
Instants ==
    {0} \cup {t \in openCommitTimeout..MaxClock : t % openCommitTimeout <= 1}

----------------------------------------------------------------------------
(* Storage operations *)

len(m) == Cardinality(DOMAIN m)

\* SELECT * FROM assignments WHERE id = $1 AND user_id = $2
QueryAssignment(assignmentID, userID) ==
    {a \in assignments : a.ID = assignmentID /\ a.UserID = userID}

\* as OpenRows, without the condition NOT closed
OpenRowsAnyState(db, assignmentID) ==
    {c \in db : c.AssignmentID = assignmentID}

\* as OpenRows, without the condition on assignment_id
OpenRowsAnyAssignment(db, assignmentID) ==
    {c \in db : ~c.Closed}

\* SELECT * FROM commits WHERE NOT closed AND assignment_id = $1
OpenRows(db, assignmentID) ==
    {c \in db : ~c.Closed /\ c.AssignmentID = assignmentID}

NoRow == [ID |-> 0]

\* ... LIMIT 1: any one of the matching rows, sql.ErrNoRows when there is none
QueryOpenCommit(db, assignmentID) ==
    IF OpenRows(db, assignmentID) = {} THEN {NoRow} ELSE OpenRows(db, assignmentID)

\* meddler.Update: UPDATE commits SET ... WHERE id = row.ID
Update(db, row) ==
    {IF c.ID = row.ID THEN row ELSE c : c \in db}

\* as Save, inserting whatever the primary key is
SaveAlwaysInserts(db, nid, row) ==
    db \cup {[row EXCEPT !.ID = nid]}

\* meddler.Save: INSERT with a fresh serial id when the primary key is zero,
\* UPDATE otherwise
Save(db, nid, row) ==
    IF row.ID = 0 THEN db \cup {[row EXCEPT !.ID = nid]} ELSE Update(db, row)

Saved(nid, row) == IF row.ID = 0 THEN [row EXCEPT !.ID = nid] ELSE row

\* the transaction around a handler: its writes are kept when the handler
\* answers without an error and dropped when it answers with one
transaction(status, before, after) ==
    IF status < StatusBadRequest THEN after ELSE before

----------------------------------------------------------------------------
(* PostUserAssignmentCommit *)

\* as Stale, without the timeout
StaleByStepOnly(openCommit, commit, now) ==
    openCommit.ID # 0
    /\ openCommit.ProblemStepNumber # commit.ProblemStepNumber

\* as Stale, without the step number
StaleByTimeoutOnly(openCommit, commit, now) ==
    openCommit.ID # 0
    /\ now - openCommit.UpdatedAt > openCommitTimeout

\* close the old commit?
Stale(openCommit, commit, now) ==
    openCommit.ID # 0
    /\ (now - openCommit.UpdatedAt > openCommitTimeout
        \/ openCommit.ProblemStepNumber # commit.ProblemStepNumber)

\* as Closing, leaving Closed as it is
ClosingStaysOpen(openCommit, now) ==
    [openCommit EXCEPT !.UpdatedAt = now]

\* as Closing, leaving UpdatedAt as it is
ClosingKeepsUpdatedAt(openCommit, now) ==
    [openCommit EXCEPT !.Closed = TRUE]

\* the old commit as written back when it is closed
Closing(openCommit, now) ==
    [openCommit EXCEPT !.Closed = TRUE, !.UpdatedAt = now]

\* as Resolve, stamping CreatedAt with the request time on a merge too
ResolveRestampsCreatedAt(openCommit, commit, assignmentID, userID, now) ==
    LET merge == openCommit.ID # 0 /\ ~Stale(openCommit, commit, now) IN
    [commit EXCEPT
        !.ID = IF merge THEN openCommit.ID ELSE 0,
        !.CreatedAt = now,
        !.AssignmentID = assignmentID,
        !.UserID = userID,
        !.Closed = IF commit.ReportCard # nil \/ Len(commit.Transcript) > 0
                   THEN TRUE ELSE commit.Closed,
        !.UpdatedAt = now]

\* as Resolve, closing on a report card only
ResolveIgnoresTranscript(openCommit, commit, assignmentID, userID, now) ==
    LET merge == openCommit.ID # 0 /\ ~Stale(openCommit, commit, now) IN
    [commit EXCEPT
        !.ID = IF merge THEN openCommit.ID ELSE 0,
        !.CreatedAt = IF merge THEN openCommit.CreatedAt ELSE now,
        !.AssignmentID = assignmentID,
        !.UserID = userID,
        !.Closed = IF commit.ReportCard # nil THEN TRUE ELSE commit.Closed,
        !.UpdatedAt = now]

\* as Resolve, keeping the Comment of the open commit on a merge
ResolveKeepsComment(openCommit, commit, assignmentID, userID, now) ==
    LET merge == openCommit.ID # 0 /\ ~Stale(openCommit, commit, now) IN
    [commit EXCEPT
        !.ID = IF merge THEN openCommit.ID ELSE 0,
        !.CreatedAt = IF merge THEN openCommit.CreatedAt ELSE now,
        !.Comment = IF merge THEN openCommit.Comment ELSE commit.Comment,
        !.AssignmentID = assignmentID,
        !.UserID = userID,
        !.Closed = IF commit.ReportCard # nil \/ Len(commit.Transcript) > 0
                   THEN TRUE ELSE commit.Closed,
        !.UpdatedAt = now]

\* as Resolve, leaving UpdatedAt as the request body has it
ResolveKeepsUpdatedAt(openCommit, commit, assignmentID, userID, now) ==
    LET merge == openCommit.ID # 0 /\ ~Stale(openCommit, commit, now) IN
    [commit EXCEPT
        !.ID = IF merge THEN openCommit.ID ELSE 0,
        !.CreatedAt = IF merge THEN openCommit.CreatedAt ELSE now,
        !.AssignmentID = assignmentID,
        !.UserID = userID,
        !.Closed = IF commit.ReportCard # nil \/ Len(commit.Transcript) > 0
                   THEN TRUE ELSE commit.Closed]

\* the commit handed to meddler.Save
Resolve(openCommit, commit, assignmentID, userID, now) ==
    LET merge == openCommit.ID # 0 /\ ~Stale(openCommit, commit, now) IN
    [commit EXCEPT
        !.ID = IF merge THEN openCommit.ID ELSE 0,
        !.CreatedAt = IF merge THEN openCommit.CreatedAt ELSE now,
        !.AssignmentID = assignmentID,
        !.UserID = userID,
        !.Closed = IF commit.ReportCard # nil \/ Len(commit.Transcript) > 0
                   THEN TRUE ELSE commit.Closed,
        !.UpdatedAt = now]

\* as Lookup, without the check for an empty submission
LookupAcceptsNoFiles(userID, assignmentID, commit, fail) ==
    IF fail = "assignments"
        THEN [status |-> StatusInternalServerError, failed |-> "assignments",
              trace |-> <<"assignments">>]
    ELSE IF QueryAssignment(assignmentID, userID) = {}
        THEN [status |-> StatusNotFound, failed |-> "none", trace |-> <<"assignments">>]
    ELSE IF fail = "open"
        THEN [status |-> StatusInternalServerError, failed |-> "open",
              trace |-> <<"assignments", "open">>]
    ELSE [status |-> StatusOK, failed |-> "none", trace |-> <<"assignments", "open">>]

\* as Lookup, going on when the assignment is not found
LookupIgnoresNoRows(userID, assignmentID, commit, fail) ==
    IF fail = "assignments"
        THEN [status |-> StatusInternalServerError, failed |-> "assignments",
              trace |-> <<"assignments">>]
    ELSE IF len(commit.Submission) = 0
        THEN [status |-> StatusBadRequest, failed |-> "none", trace |-> <<"assignments">>]
    ELSE IF fail = "open"
        THEN [status |-> StatusInternalServerError, failed |-> "open",
              trace |-> <<"assignments", "open">>]
    ELSE [status |-> StatusOK, failed |-> "none", trace |-> <<"assignments", "open">>]

\* the part of the handler up to the open-commit lookup (the lookup's result
\* is openCommit): the status it ends the request with, StatusOK to go on
Lookup(userID, assignmentID, commit, fail) ==
    IF fail = "assignments"
        THEN [status |-> StatusInternalServerError, failed |-> "assignments",
              trace |-> <<"assignments">>]
    ELSE IF QueryAssignment(assignmentID, userID) = {}
        THEN [status |-> StatusNotFound, failed |-> "none", trace |-> <<"assignments">>]
    ELSE IF len(commit.Submission) = 0
        THEN [status |-> StatusBadRequest, failed |-> "none", trace |-> <<"assignments">>]
    ELSE IF fail = "open"
        THEN [status |-> StatusInternalServerError, failed |-> "open",
              trace |-> <<"assignments", "open">>]
    ELSE [status |-> StatusOK, failed |-> "none", trace |-> <<"assignments", "open">>]

\* as Write, answering the request although meddler.Save failed
WriteIgnoresSaveError(db, nid, openCommit, userID, assignmentID, commit, now, fail) ==
    LET stale == Stale(openCommit, commit, now)
        db1 == IF stale THEN Update(db, Closing(openCommit, now)) ELSE db
        row == Resolve(openCommit, commit, assignmentID, userID, now)
        t1 == IF stale THEN <<"assignments", "open", "update">>
                       ELSE <<"assignments", "open">>
    IN  IF stale /\ fail = "update"
            THEN [status |-> StatusInternalServerError, failed |-> "update", db |-> db,
                  id |-> 0, old |-> 0, trace |-> t1]
        ELSE IF fail = "save"
            THEN [status |-> StatusOK, failed |-> "save", db |-> db1,
                  id |-> 0, old |-> 0, trace |-> Append(t1, "save")]
        ELSE [status |-> StatusOK, failed |-> "none", db |-> Save(db1, nid, row),
              id |-> Saved(nid, row).ID,
              old |-> IF stale THEN openCommit.ID ELSE 0,
              trace |-> Append(t1, "save")]

\* the part of the handler after the open-commit lookup, on the table db
Write(db, nid, openCommit, userID, assignmentID, commit, now, fail) ==
    LET stale == Stale(openCommit, commit, now)
        db1 == IF stale THEN Update(db, Closing(openCommit, now)) ELSE db
        row == Resolve(openCommit, commit, assignmentID, userID, now)
        t1 == IF stale THEN <<"assignments", "open", "update">>
                       ELSE <<"assignments", "open">>
    IN  IF stale /\ fail = "update"
            THEN [status |-> StatusInternalServerError, failed |-> "update", db |-> db,
                  id |-> 0, old |-> 0, trace |-> t1]
        ELSE IF fail = "save"
            THEN [status |-> StatusInternalServerError, failed |-> "save", db |-> db1,
                  id |-> 0, old |-> 0, trace |-> Append(t1, "save")]
        ELSE [status |-> StatusOK, failed |-> "none", db |-> Save(db1, nid, row),
              id |-> Saved(nid, row).ID,
              old |-> IF stale THEN openCommit.ID ELSE 0,
              trace |-> Append(t1, "save")]

\* the request served last: what it asked for (op, assignment, number of
\* files), the persistence operations it ran (trace), the one that failed,
\* the status it was answered with, the id of the commit it saved (id) and
\* of the commit it closed (old)
Response(op, assignmentID, commit, r, id, old) ==
    [op |-> op, assignment |-> assignmentID, files |-> len(commit.Submission),
     status |-> r.status, failed |-> r.failed, id |-> id, old |-> old,
     trace |-> r.trace]

PostUserAssignmentCommit(userID, assignmentID, commit, fail) ==
    LET now == clock
        pre == Lookup(userID, assignmentID, commit, fail)
    IN  /\ IF pre.status # StatusOK
           THEN /\ commits' = commits
                /\ nextID' = nextID
                /\ resp' = Response("post", assignmentID, commit, pre, 0, 0)
           ELSE \E openCommit \in QueryOpenCommit(commits, assignmentID) :
                LET w == Write(commits, nextID, openCommit, userID, assignmentID,
                               commit, now, fail)
                IN  /\ w.id = nextID => nextID <= MaxID
                    /\ commits' = transaction(w.status, commits, w.db)
                    /\ nextID' = IF w.status = StatusOK /\ w.id = nextID
                                 THEN nextID + 1 ELSE nextID
                    /\ resp' = Response("post", assignmentID, commit, w, w.id, w.old)
        /\ UNCHANGED <<clock, inflight, call>>

----------------------------------------------------------------------------
(* Deletions *)

NoCommit == [Submission |-> NoFiles]

Exec(fail) ==
    IF fail THEN [status |-> StatusInternalServerError, failed |-> "delete",
                  trace |-> <<"delete">>]
            ELSE [status |-> StatusOK, failed |-> "none", trace |-> <<"delete">>]

\* DELETE FROM commits WHERE user_id = $1 AND assignment_id = $2
DeleteUserAssignmentCommits(userID, assignmentID, fail) ==
    LET after == {c \in commits : ~(c.UserID = userID /\ c.AssignmentID = assignmentID)}
    IN  /\ commits' = transaction(Exec(fail).status, commits, after)
        /\ resp' = Response("delete", assignmentID, NoCommit, Exec(fail), 0, 0)
        /\ UNCHANGED <<nextID, clock, inflight, call>>

\* DELETE FROM commits WHERE id = $1 AND user_id = $2 AND assignment_id = $3
DeleteUserAssignmentCommit(userID, assignmentID, commitID, fail) ==
    LET after == {c \in commits : ~(c.ID = commitID /\ c.UserID = userID
                                    /\ c.AssignmentID = assignmentID)}
    IN  /\ commits' = transaction(Exec(fail).status, commits, after)
        /\ resp' = Response("delete", assignmentID, NoCommit, Exec(fail), 0, 0)
        /\ UNCHANGED <<nextID, clock, inflight, call>>

----------------------------------------------------------------------------
(* Time *)

Tick ==
    /\ \E t \in Instants : t > clock /\ clock' = t
    /\ UNCHANGED <<commits, nextID, resp, inflight, call>>

----------------------------------------------------------------------------
(* Requests served one at a time *)

Slots == {1, 2}

Idle == [pc |-> "idle"]

NoCall == [fn |-> "none"]

NoResponse ==
    Response("none", 0, NoCommit, [status |-> 0, failed |-> "none", trace |-> <<>>], 0, 0)

Init ==
    /\ commits = {}
    /\ nextID = 1
    /\ clock = 0
    /\ resp = NoResponse
    /\ inflight = [s \in Slots |-> Idle]
    /\ call = NoCall

PostOver(A, P, F) ==
    \E userID \in Users, assignmentID \in A, commit \in P, fail \in F :
        PostUserAssignmentCommit(userID, assignmentID, commit, fail)

DeleteAllOver(F) ==
    \E userID \in Users, assignmentID \in AssignmentIDs, fail \in F :
        DeleteUserAssignmentCommits(userID, assignmentID, fail)

DeleteOneOver(F) ==
    \E userID \in Users, assignmentID \in AssignmentIDs, commitID \in 1..MaxID,
       fail \in F :
        DeleteUserAssignmentCommit(userID, assignmentID, commitID, fail)

\* every persistence operation succeeds
Post == PostOver(AssignmentIDs, Payloads, {"none"})
DeleteAll == DeleteAllOver({FALSE})
DeleteOne == DeleteOneOver({FALSE})

Next == Post \/ DeleteAll \/ DeleteOne \/ Tick

Spec == Init /\ [][Next]_vars

\* persistence operations may fail
PostMayFail == PostOver({1}, PayloadsMayFail, Failures)
DeleteAllMayFail == DeleteAllOver(BOOLEAN)
DeleteOneMayFail == DeleteOneOver(BOOLEAN)

NextFail == PostMayFail \/ DeleteAllMayFail \/ DeleteOneMayFail \/ Tick

SpecFail == Init /\ [][NextFail]_vars

----------------------------------------------------------------------------
(* Requests whose transactions interleave: each request reads the open     *)
(* commit in one step and writes in a later one, and sees what the          *)
(* transactions that ended before its read have written.  The requests of   *)
(* such a run arrive within one reading of the clock.                       *)

\* lines 235-267 of the handler: now, the assignment, the validation and the
\* open-commit lookup
BeginPost(s, userID, assignmentID, commit) ==
    LET pre == Lookup(userID, assignmentID, commit, "none")
    IN  /\ inflight[s].pc # "read"
        /\ IF pre.status # StatusOK
           THEN /\ resp' = Response("post", assignmentID, commit, pre, 0, 0)
                /\ inflight' = inflight
           ELSE /\ \E openCommit \in QueryOpenCommit(commits, assignmentID) :
                    inflight' = [inflight EXCEPT ![s] =
                        [pc |-> "read", user |-> userID, assignment |-> assignmentID,
                         commit |-> commit, now |-> clock, openCommit |-> openCommit]]
                /\ resp' = resp
        /\ UNCHANGED <<commits, nextID, clock, call>>

\* lines 269-303 of the handler and the end of its transaction; what the
\* request saw stays on record
FinishPost(s) ==
    LET r == inflight[s]
        w == Write(commits, nextID, r.openCommit, r.user, r.assignment, r.commit,
                   r.now, "none")
    IN  /\ r.pc = "read"
        /\ w.id = nextID => nextID <= MaxID
        /\ commits' = transaction(w.status, commits, w.db)
        /\ nextID' = IF w.status = StatusOK /\ w.id = nextID THEN nextID + 1 ELSE nextID
        /\ resp' = Response("post", r.assignment, r.commit, w, w.id, w.old)
        /\ inflight' = [inflight EXCEPT ![s] =
                [pc |-> "done", assignment |-> r.assignment, openCommit |-> r.openCommit.ID]]
        /\ UNCHANGED <<clock, call>>

Begin ==
    \E s \in Slots, userID \in Users, assignmentID \in AssignmentIDs,
       commit \in PayloadsInterleaved :
        BeginPost(s, userID, assignmentID, commit)

Finish == \E s \in Slots : FinishPost(s)

NextRace == Begin \/ Finish

SpecRace == Init /\ [][NextRace]_vars

----------------------------------------------------------------------------
(* Properties of the commit session *)

Row(db, id) == CHOOSE c \in db : c.ID = id

Stored(db, id) == \E c \in db : c.ID = id

\* this step serves a PostUserAssignmentCommit request
PostStep == clock' = clock /\ resp'.op = "post"

Accepted(r) == r.op = "post" /\ r.status = StatusOK

Graded(c) == c.ReportCard # nil \/ Len(c.Transcript) > 0

\* C1: every assignment has at most one stored commit with Closed = FALSE
AtMostOneOpenCommit ==
    \A a \in AssignmentIDs : Cardinality(OpenRows(commits, a)) <= 1

\* a request closed the open commit of an assignment and left the new one open
AtMostOneOpenCommitWitness ==
    /\ Accepted(resp)
    /\ resp.old # 0
    /\ \E a \in AssignmentIDs :
        /\ Cardinality({c \in commits : c.AssignmentID = a}) = 2
        /\ Cardinality(OpenRows(commits, a)) = 1

\* the open commit request s saw is the open commit stored now
ObservationCurrent(s) ==
    inflight[s].openCommit \in QueryOpenCommit(commits, inflight[s].assignment)

\* C2: a request that writes while what it read is still current (its read,
\* decision and write are as if atomic) leaves at most one open commit per
\* assignment; two open commits arise only from a write after a stale read
AtomicWriteKeepsOneOpenCommit ==
    [][\A s \in Slots :
        (/\ inflight[s].pc = "read"
         /\ inflight'[s].pc = "done"
         /\ ObservationCurrent(s)
         /\ AtMostOneOpenCommit)
        => AtMostOneOpenCommit']_vars

\* two requests for one assignment both saw no open commit, and two open
\* commits are stored for it
DuplicateOpenCommitsWitness ==
    /\ \A s \in Slots : inflight[s].pc = "done" /\ inflight[s].openCommit = NoRow.ID
    /\ inflight[1].assignment = inflight[2].assignment
    /\ Cardinality(OpenRows(commits, inflight[1].assignment)) = 2

\* the second of two successive accepted requests with the same assignment,
\* step number and files, no more than the timeout after the first
Resubmission(new) ==
    /\ PostStep
    /\ Accepted(resp)
    /\ Accepted(resp')
    /\ Stored(commits, resp.id)
    /\ new.AssignmentID = Row(commits, resp.id).AssignmentID
    /\ new.ProblemStepNumber = Row(commits, resp.id).ProblemStepNumber
    /\ new.Submission = Row(commits, resp.id).Submission
    /\ clock' - Row(commits, resp.id).UpdatedAt <= openCommitTimeout

Merged(new) ==
    /\ Cardinality(commits') = Cardinality(commits)
    /\ new.ID = resp.id
    /\ new.CreatedAt = Row(commits, resp.id).CreatedAt
    /\ new.UpdatedAt = clock'

\* C3 as stated: the second of two successive accepted submissions with the
\* same step number and files, within the timeout, adds no row and keeps the
\* ID and CreatedAt of the first, with UpdatedAt the time of the second
ResubmissionMerges ==
    [][Resubmission(Row(commits', resp'.id)) => Merged(Row(commits', resp'.id))]_vars

\* C3 as amended: the same, when the first request left its commit open
ResubmissionToOpenCommitMerges ==
    [][(Resubmission(Row(commits', resp'.id)) /\ ~Row(commits, resp.id).Closed)
        => Merged(Row(commits', resp'.id))]_vars

\* one commit, created by one request and updated by a later one
ResubmissionMergedWitness ==
    /\ Accepted(resp)
    /\ resp.old = 0
    /\ Cardinality(commits) = 1
    /\ \E c \in commits :
        c.ID = resp.id /\ c.CreatedAt < c.UpdatedAt /\ c.UpdatedAt = clock

\* C4: an accepted submission arriving more than the timeout after the
\* UpdatedAt of the open commit leaves that commit stored closed and is
\* stored as a new commit with another id
TimeoutClosesOpenCommit ==
    [][(PostStep /\ Accepted(resp'))
        => \A oc \in OpenRows(commits, resp'.assignment) :
            clock' - oc.UpdatedAt > openCommitTimeout
            => /\ Stored(commits', oc.ID)
               /\ Row(commits', oc.ID).Closed
               /\ Stored(commits', resp'.id)
               /\ resp'.id # oc.ID
               /\ ~Stored(commits, resp'.id)]_vars

\* a commit closed by a request of the same step
TimeoutClosesOpenCommitWitness ==
    /\ Accepted(resp)
    /\ resp.old # 0
    /\ Stored(commits, resp.old)
    /\ Stored(commits, resp.id)
    /\ Row(commits, resp.old).Closed
    /\ Row(commits, resp.old).ProblemStepNumber = Row(commits, resp.id).ProblemStepNumber
    /\ Row(commits, resp.old).CreatedAt + openCommitTimeout < clock

\* C5: an accepted submission whose step number differs from the open
\* commit's leaves that commit stored closed and is stored as a new commit,
\* whatever time has passed
StepChangeClosesOpenCommit ==
    [][(PostStep /\ Accepted(resp'))
        => \A oc \in OpenRows(commits, resp'.assignment) :
            oc.ProblemStepNumber # Row(commits', resp'.id).ProblemStepNumber
            => /\ Stored(commits', oc.ID)
               /\ Row(commits', oc.ID).Closed
               /\ resp'.id # oc.ID
               /\ ~Stored(commits, resp'.id)]_vars

\* a commit closed by a request of another step at the instant it was created
StepChangeClosesOpenCommitWitness ==
    /\ Accepted(resp)
    /\ resp.old # 0
    /\ Stored(commits, resp.old)
    /\ Stored(commits, resp.id)
    /\ Row(commits, resp.old).Closed
    /\ Row(commits, resp.old).ProblemStepNumber # Row(commits, resp.id).ProblemStepNumber
    /\ Row(commits, resp.old).CreatedAt = clock

EmptySubmissionRejected ==
    [][(PostStep /\ resp'.files = 0 /\ resp'.failed = "none"
        /\ \E u \in Users : QueryAssignment(resp'.assignment, u) # {})
        => /\ resp'.status = StatusBadRequest
           /\ commits' = commits
           /\ nextID' = nextID]_vars

\* rejected while an open commit has timed out
EmptySubmissionRejectedWitness ==
    /\ resp.op = "post"
    /\ resp.files = 0
    /\ resp.status = StatusBadRequest
    /\ \E oc \in OpenRows(commits, resp.assignment) :
        clock - oc.UpdatedAt > openCommitTimeout

\* C8: a request in which a persistence operation fails is answered with an
\* internal error and changes no stored commit
PersistenceErrorLeavesCommits ==
    [][(PostStep /\ resp'.failed # "none")
        => /\ resp'.status = StatusInternalServerError
           /\ commits' = commits]_vars

\* the save failed after the stale commit was marked closed, and the stale
\* commit is stored open with its old UpdatedAt
PersistenceErrorLeavesCommitsWitness ==
    /\ resp.op = "post"
    /\ resp.failed = "save"
    /\ resp.trace = <<"assignments", "open", "update", "save">>
    /\ \E oc \in OpenRows(commits, resp.assignment) : oc.UpdatedAt < clock

\* C9: a request changes no field of a commit stored closed
ClosedCommitUnchanged ==
    [][PostStep => \A c \in commits : c.Closed => c \in commits']_vars

\* an accepted request wrote a commit while another commit was stored closed
ClosedCommitUnchangedWitness ==
    /\ Accepted(resp)
    /\ \E c \in commits :
        c.Closed /\ c.ID # resp.id /\ c.ID # resp.old /\ c.UpdatedAt < clock

\* C10: a submission to an assignment the user does not have is answered
\* not found before the open commit is looked up, and changes no stored commit
UnknownAssignmentRejected ==
    [][(PostStep /\ resp'.failed = "none"
        /\ \A u \in Users : QueryAssignment(resp'.assignment, u) = {})
        => /\ resp'.status = StatusNotFound
           /\ resp'.trace = <<"assignments">>
           /\ commits' = commits
           /\ nextID' = nextID]_vars

\* rejected with commits stored
UnknownAssignmentRejectedWitness ==
    /\ resp.op = "post"
    /\ resp.status = StatusNotFound
    /\ resp.files > 0
    /\ commits # {}

----------------------------------------------------------------------------
(* Transcript limits *)

\* a transcript of n events of one byte each
TranscriptOfEvents(n) == [i \in 1..n |-> EventMessage(1)]

\* transcripts of request bodies: none, short, at and over the event-count
\* limit, at and over the data limit
Transcripts ==
    { <<>>,
      TranscriptOfEvents(1),
      TranscriptOfEvents(transcriptEventCountLimit),
      TranscriptOfEvents(transcriptEventCountLimit + 1),
      <<EventMessage(transcriptDataLimit)>>,
      <<EventMessage(transcriptDataLimit + 1)>> }

\* request bodies of the runs that submit transcripts
PayloadsWithTranscript ==
    { Payload(e, step, [ReportCard |-> nil, Transcript |-> t, Closed |-> FALSE]) :
        e \in {c \in Contents : c.Submission = FilesA}, step \in {1},
        t \in Transcripts }

PostWithTranscript == PostOver(AssignmentIDs, PayloadsWithTranscript, {"none"})

NextTranscript == PostWithTranscript \/ Tick

SpecTranscript == Init /\ [][NextTranscript]_vars

RECURSIVE TranscriptData(_)
\* the bytes of data of a transcript
TranscriptData(t) ==
    IF t = <<>> THEN 0 ELSE Head(t).Data + TranscriptData(Tail(t))

\* C11: no stored commit holds a transcript of more events than the
\* event-count limit or of more data than the data limit
StoredTranscriptBounded ==
    \A c \in commits :
        /\ Len(c.Transcript) <= transcriptEventCountLimit
        /\ TranscriptData(c.Transcript) <= transcriptDataLimit

----------------------------------------------------------------------------
(* Step whitelists (src/types/problem.go).  A file name is the sequence of *)
(* its characters.                                                          *)

mainPy == <<"m", "a", "i", "n", ".", "p", "y">>
utilPy == <<"u", "t", "i", "l", ".", "p", "y">>
testsTestMainPy ==
    <<"t", "e", "s", "t", "s", "/", "t", "e", "s", "t", "_", "m", "a", "i", "n", ".", "p", "y">>
docIndexMd == <<"_", "d", "o", "c", "/", "i", "n", "d", "e", "x", ".", "m", "d">>

StepFileNames == {mainPy, utilPy, testsTestMainPy, docIndexMd}

\* the Files of a step: contents by file name
StepFiles == UNION { [names -> {"v1"}] : names \in SUBSET StepFileNames }

ProblemStep(n, files) == [Step |-> n, Note |-> "note", Weight |-> 1, Files |-> files]

\* the lists of at most MaxSteps steps, numbered from 1
StepLists ==
    UNION { { [i \in 1..n |-> ProblemStep(i, fs[i])] : fs \in [1..n -> StepFiles] } :
            n \in 0..MaxSteps }

\* the index of the first occurrence of sep in s, 0 if there is none
Index(s, sep) ==
    IF \E i \in 1..Len(s) : s[i] = sep
    THEN CHOOSE i \in 1..Len(s) : s[i] = sep /\ \A j \in 1..(i - 1) : s[j] # sep
    ELSE 0

SplitNever(s, sep) == <<s>>

RECURSIVE Split(_, _)
\* strings.Split: the substrings of s between the occurrences of sep
Split(s, sep) ==
    IF Index(s, sep) = 0
    THEN <<s>>
    ELSE <<SubSeq(s, 1, Index(s, sep) - 1)>>
         \o Split(SubSeq(s, Index(s, sep) + 1, Len(s)), sep)

WhitelistWithoutCarry(lists, step) ==
    {name \in DOMAIN step.Files : Len(Split(name, "/")) = 1}

WhitelistOfAllFiles(lists, step) ==
    (IF Len(lists) > 0 THEN lists[Len(lists)] ELSE {}) \cup DOMAIN step.Files

\* one iteration of the loop: the whitelist of step, given the whitelists of
\* the steps before it
Whitelist(lists, step) ==
    LET carried == IF Len(lists) > 0 THEN lists[Len(lists)] ELSE {}
        added == {name \in DOMAIN step.Files : Len(Split(name, "/")) = 1}
    IN  carried \cup added

RECURSIVE WhitelistsFrom(_, _)
\* the loop over the steps not yet visited
WhitelistsFrom(lists, steps) ==
    IF steps = <<>> THEN lists
    ELSE WhitelistsFrom(Append(lists, Whitelist(lists, Head(steps))), Tail(steps))

GetStepWhitelists(steps) == WhitelistsFrom(<<>>, steps)

CallGetStepWhitelists ==
    /\ call.fn = "GetStepWhitelists"
    /\ call.pc = "called"
    /\ call' = [call EXCEPT !.pc = "returned", !.lists = GetStepWhitelists(call.steps)]
    /\ UNCHANGED <<commits, nextID, clock, resp, inflight>>

InitWhitelists ==
    /\ commits = {}
    /\ nextID = 1
    /\ clock = 0
    /\ resp = NoResponse
    /\ inflight = [s \in Slots |-> Idle]
    /\ call \in { [fn |-> "GetStepWhitelists", pc |-> "called", steps |-> steps,
                    lists |-> <<>>] : steps \in StepLists }

NextWhitelists == CallGetStepWhitelists

SpecWhitelists == InitWhitelists /\ [][NextWhitelists]_vars

Returned(fn) == call.fn = fn /\ call.pc = "returned"

HasSeparator(name) == \E i \in 1..Len(name) : name[i] = "/"

\* C12: in the whitelists GetStepWhitelists returns, the whitelist of step n
\* contains the whitelist of step n-1, for every n > 1
MonotonicWhitelist ==
    Returned("GetStepWhitelists") =>
        \A n \in 2..Len(call.lists) : call.lists[n - 1] \subseteq call.lists[n]

\* a name of the first step is in the second whitelist though the second
\* step has no file of that name
MonotonicWhitelistWitness ==
    /\ Returned("GetStepWhitelists")
    /\ Len(call.lists) >= 2
    /\ \E name \in call.lists[1] :
        /\ name \notin DOMAIN call.steps[2].Files
        /\ name \in call.lists[2]
    /\ call.lists[2] # call.lists[1]

\* the returned whitelists are one per step, each the whitelist before it
\* (none for the first step) united with the names of its step that have no
\* path separator, and no whitelist holds a name with a separator
WhitelistRule ==
    Returned("GetStepWhitelists") =>
        /\ Len(call.lists) = Len(call.steps)
        /\ \A i \in 1..Len(call.lists) :
            /\ call.lists[i] =
                    (IF i = 1 THEN {} ELSE call.lists[i - 1])
                    \cup {name \in DOMAIN call.steps[i].Files : ~HasSeparator(name)}
            /\ \A name \in call.lists[i] : ~HasSeparator(name)

\* C13: GetStepWhitelists returns one whitelist per step in step order, the
\* whitelist of step i being that of step i-1 (empty for the first) united
\* with exactly the names of step i without a path separator; no name with a
\* separator is in any whitelist, and the input steps are not modified
WhitelistsFollowRule ==
    [][call'.steps = call.steps /\ WhitelistRule']_vars

\* two steps were given, the second with a _doc/ file and a root-level file
\* the first did not have
WhitelistsFollowRuleWitness ==
    /\ Returned("GetStepWhitelists")
    /\ Len(call.steps) = 2
    /\ DOMAIN call.steps[1].Files = {mainPy, testsTestMainPy}
    /\ DOMAIN call.steps[2].Files = {utilPy, docIndexMd}
    /\ call.lists[2] = {mainPy, utilPy}

\* the steps of the example: main.py in step 1, tests/test_main.py in step 2
ExampleSteps ==
    << ProblemStep(1, [name \in {mainPy} |-> "v1"]),
       ProblemStep(2, [name \in {testsTestMainPy} |-> "v1"]) >>

\* C14 as stated: for the example the whitelist of step 1 is {main.py} and
\* that of step 2 is {main.py, tests/test_main.py}
ExampleWhitelists ==
    (Returned("GetStepWhitelists") /\ call.steps = ExampleSteps) =>
        call.lists = <<{mainPy}, {mainPy, testsTestMainPy}>>

\* C14: for the example the whitelist of step 1 is {main.py} and that of
\* step 2 is {main.py} too: tests/test_main.py has a path separator
ExampleWhitelistsRootOnly ==
    (Returned("GetStepWhitelists") /\ call.steps = ExampleSteps) =>
        call.lists = <<{mainPy}, {mainPy}>>

\* GetStepWhitelists returned for the steps of the example
ExampleWhitelistsWitness ==
    /\ Returned("GetStepWhitelists")
    /\ call.steps = ExampleSteps
    /\ Len(call.lists) = 2

----------------------------------------------------------------------------
(* The file gatherer of the grind client (gather in src/unnamed/part_000). *)
(* A path is the sequence of its components below the problem directory,   *)
(* which is the empty path.                                                *)

perProblemSetDotFile == ".grind"

Node(path, kind, contents, err) ==
    [path |-> path, kind |-> kind, contents |-> contents, err |-> err]

\* what may lie in the problem directory: main.py (readable or not), util.py
\* (a regular file or not), an untracked file, the metadata file, and a
\* subdirectory that may hold its own util.py
Listings ==
    { main \cup util \cup scratch \cup dot \cup sub :
        main \in { {}, {Node(<<"main.py">>, "regular", "v1", FALSE)},
                       {Node(<<"main.py">>, "regular", "v1", TRUE)} },
        util \in { {}, {Node(<<"util.py">>, "regular", "v1", FALSE)},
                       {Node(<<"util.py">>, "other", "", FALSE)} },
        scratch \in { {}, {Node(<<"scratch.txt">>, "regular", "v1", FALSE)} },
        dot \in { {}, {Node(<<perProblemSetDotFile>>, "regular", "{}", FALSE)} },
        sub \in { {}, {Node(<<"sub">>, "dir", "", FALSE)},
                      {Node(<<"sub">>, "dir", "", FALSE),
                       Node(<<"sub", "util.py">>, "regular", "v2", FALSE)} } }

\* info.Whitelist as the client stores it: every listed name maps to true
Whitelists == UNION { [names -> {TRUE}] : names \in SUBSET {"main.py", "util.py"} }

\* the second result of filepath.Split: the last component of the path
Base(path) == path[Len(path)]

\* info.Whitelist[name]: false for a name the map does not hold
Whitelisted(whitelist, name) == name \in DOMAIN whitelist /\ whitelist[name]

WalkFnDescends(node, whitelist) ==
    IF node.kind = "dir" THEN "nil"
    ELSE IF node.kind # "regular" THEN "nil"
    ELSE IF Base(node.path) = perProblemSetDotFile THEN "nil"
    ELSE IF Whitelisted(whitelist, Base(node.path))
         THEN (IF node.err THEN "error" ELSE "read")
         ELSE "skipping"

WalkFnReadsEveryFile(node, whitelist) ==
    IF node.kind = "dir" THEN "SkipDir"
    ELSE IF node.kind # "regular" THEN "nil"
    ELSE IF node.err THEN "error" ELSE "read"

\* the function gather passes to filepath.Walk, for a node other than the
\* problem directory: what it does with the node
WalkFn(node, whitelist) ==
    IF node.kind = "dir" THEN "SkipDir"
    ELSE IF node.kind # "regular" THEN "nil"
    ELSE IF Base(node.path) = perProblemSetDotFile THEN "nil"
    ELSE IF Whitelisted(whitelist, Base(node.path))
         THEN (IF node.err THEN "error" ELSE "read")
         ELSE "skipping"

\* filepath.Walk calls the function on a node when it descended into every
\* directory above it
Walked(node, listing, whitelist) ==
    \A n \in 1..(Len(node.path) - 1) :
        \E dir \in listing :
            /\ dir.path = SubSeq(node.path, 1, n)
            /\ dir.kind = "dir"
            /\ WalkFn(dir, whitelist) = "nil"

\* the walk: whether it ended with an error, the paths read, the files
\* gathered by name, the names skipped
Walk(listing, whitelist) ==
    LET walked == {node \in listing : Walked(node, listing, whitelist)}
        read == {node \in walked : WalkFn(node, whitelist) = "read"}
    IN  [err |-> \E node \in walked : WalkFn(node, whitelist) = "error",
         read |-> {node.path : node \in read},
         files |-> [name \in {Base(node.path) : node \in read} |->
                      (CHOOSE node \in read : Base(node.path) = name).contents],
         skipped |-> {Base(node.path) :
                        node \in {x \in walked : WalkFn(x, whitelist) = "skipping"}}]

CheckAcceptsMissing(files, whitelist) ==
    [status |-> "ok", notFound |-> {}]

\* the check after the walk
Check(files, whitelist) ==
    IF len(files) # len(whitelist)
    THEN [status |-> "all expected files must be present",
          notFound |-> {name \in DOMAIN whitelist : name \notin DOMAIN files}]
    ELSE [status |-> "ok", notFound |-> {}]

gather(listing, whitelist) ==
    LET w == Walk(listing, whitelist)
        c == Check(w.files, whitelist)
    IN  IF w.err
        THEN [status |-> "walk error", read |-> {}, files |-> <<>>, skipped |-> {},
              notFound |-> {}]
        ELSE [status |-> c.status, read |-> w.read, files |-> w.files,
              skipped |-> w.skipped, notFound |-> c.notFound]

CallGather ==
    /\ call.fn = "gather"
    /\ call.pc = "called"
    /\ call' = [call EXCEPT !.pc = "returned",
                             !.result = gather(call.listing, call.whitelist)]
    /\ UNCHANGED <<commits, nextID, clock, resp, inflight>>

InitGather ==
    /\ commits = {}
    /\ nextID = 1
    /\ clock = 0
    /\ resp = NoResponse
    /\ inflight = [s \in Slots |-> Idle]
    /\ call \in { [fn |-> "gather", pc |-> "called", listing |-> listing,
                    whitelist |-> whitelist, result |-> <<>>] :
                  listing \in Listings, whitelist \in Whitelists }

NextGather == CallGather

SpecGather == InitGather /\ [][NextGather]_vars

\* gather returned and its walk ended without an error
Gathered == Returned("gather") /\ call.result.status # "walk error"

\* C15: after the walk, when a whitelisted name is missing from the gathered
\* files the gatherer fails fatally having reported each missing name, and
\* when it succeeds the gathered names are the whitelist exactly
GathererComplete ==
    Gathered =>
        LET missing == DOMAIN call.whitelist \ DOMAIN call.result.files
        IN  /\ missing # {} =>
                /\ call.result.status = "all expected files must be present"
                /\ call.result.notFound = missing
            /\ call.result.status = "ok" =>
                DOMAIN call.result.files = DOMAIN call.whitelist

\* the gatherer failed over one missing name of a whitelist of two
GathererCompleteWitness ==
    /\ Gathered
    /\ DOMAIN call.whitelist = {"main.py", "util.py"}
    /\ DOMAIN call.result.files = {"main.py"}
    /\ call.result.status # "ok"
    /\ call.result.notFound = {"util.py"}

\* the listing holds a regular file with a whitelisted name in a subdirectory
WhitelistedBelow(path) ==
    /\ Len(path) > 1
    /\ \E node \in call.listing :
        /\ node.path = path
        /\ node.kind = "regular"
        /\ Whitelisted(call.whitelist, Base(path))

\* C16 as stated: a regular file with a whitelisted name in a subdirectory
\* of the problem directory is read and added to the gathered files
SubdirectoryFilesGathered ==
    Gathered =>
        \A node \in call.listing :
            WhitelistedBelow(node.path) =>
                /\ node.path \in call.result.read
                /\ Base(node.path) \in DOMAIN call.result.files

\* C16: only regular files directly in the problem directory are read: a
\* regular file with a whitelisted name in a subdirectory is never read, and
\* its name is gathered only from a file directly in the problem directory
SubdirectoryFilesSkipped ==
    Gathered =>
        /\ \A path \in call.result.read : Len(path) = 1
        /\ \A node \in call.listing :
            WhitelistedBelow(node.path) =>
                /\ node.path \notin call.result.read
                /\ Base(node.path) \in DOMAIN call.result.files =>
                    call.result.files[Base(node.path)] # node.contents

\* util.py is whitelisted and lies only in the subdirectory: it is reported
\* as not found
SubdirectoryFilesSkippedWitness ==
    /\ Gathered
    /\ WhitelistedBelow(<<"sub", "util.py">>)
    /\ ~\E node \in call.listing : node.path = <<"util.py">>
    /\ "util.py" \in call.result.notFound

\* every whitelisted name is a readable regular file of the problem directory
AllWhitelistedPresent ==
    \A name \in DOMAIN call.whitelist :
        \E node \in call.listing :
            node.path = <<name>> /\ node.kind = "regular" /\ ~node.err

\* C17: a file whose name is not whitelisted, and the metadata file, are
\* never in the gathered files, and with every whitelisted file present the
\* gatherer succeeds with the whitelisted files only, whatever else is there
UntrackedFilesIgnored ==
    Gathered =>
        /\ \A name \in DOMAIN call.result.files :
            Whitelisted(call.whitelist, name) /\ name # perProblemSetDotFile
        /\ AllWhitelistedPresent =>
            /\ call.result.status = "ok"
            /\ DOMAIN call.result.files = DOMAIN call.whitelist

\* main.py is whitelisted and present next to an untracked file and the
\* metadata file: the gatherer succeeds and gathers main.py only
UntrackedFilesIgnoredWitness ==
    /\ Gathered
    /\ DOMAIN call.whitelist = {"main.py"}
    /\ {<<"main.py">>, <<"scratch.txt">>, <<perProblemSetDotFile>>}
            \subseteq {node.path : node \in call.listing}
    /\ call.result.status = "ok"
    /\ "scratch.txt" \in call.result.skipped
    /\ DOMAIN call.result.files = {"main.py"}

----------------------------------------------------------------------------
(* The problem signature (ComputeSignature in src/types/problem.go).  A     *)
(* string is the sequence of its characters; a time is counted in tenths of *)
(* a second.                                                                *)

\* the characters of the strings involved, in byte order
Alphabet ==
    <<"%", "&", "-", ".", "/", "0", "1", "2", "3", "4", "5", "6", "7", "8", "9", "=", "A">> \o
    <<"B", "C", "D", "E", "F", "G", "H", "I", "J", "K", "L", "M", "N", "O", "P", "Q", "R">> \o
    <<"S", "T", "U", "V", "W", "X", "Y", "Z", "a", "b", "c", "d", "e", "f", "g", "h", "i">> \o
    <<"j", "k", "l", "m", "n", "o", "p", "q", "r", "s", "t", "u", "v", "w", "x", "y", "z">>

\* the rank of each character in byte order
OrdOf == [c \in {Alphabet[i] : i \in 1..Len(Alphabet)} |->
            CHOOSE i \in 1..Len(Alphabet) : Alphabet[i] = c]

Ord(c) == OrdOf[c]

RECURSIVE Less(_, _)
\* s < t as sort.Strings compares strings
Less(s, t) ==
    IF t = <<>> THEN FALSE
    ELSE IF s = <<>> THEN TRUE
    ELSE IF Head(s) # Head(t) THEN Ord(Head(s)) < Ord(Head(t))
    ELSE Less(Tail(s), Tail(t))

RECURSIVE FormatInt(_)
\* strconv.FormatInt(n, 10) of a natural number; strconv.FormatFloat(n, 'g',
\* -1, 64) and %d agree with it on the natural numbers below 10^21
FormatInt(n) ==
    IF n < 10 THEN <<SubSeq(Alphabet, 6, 15)[n + 1]>>
    ELSE FormatInt(n \div 10) \o <<SubSeq(Alphabet, 6, 15)[(n % 10) + 1]>>

\* t.Round(time.Second): to the nearest second, halves up
Round(t) == ((t + 5) \div 10) * 10

\* t.UTC().Format(time.RFC3339) of a whole second: the seconds and the zone
\* Z, no fraction
Format(t) == FormatInt(t \div 10) \o <<"Z">>

\* url.Values.Add: append value to the values of key
Add(v, key, value) ==
    IF key \in DOMAIN v
    THEN [v EXCEPT ![key] = Append(@, value)]
    ELSE [k \in DOMAIN v \cup {key} |-> IF k = key THEN <<value>> ELSE v[k]]

\* v[key] = values
Set(v, key, values) ==
    [k \in DOMAIN v \cup {key} |-> IF k = key THEN values ELSE v[k]]

FileKeyWithoutName(n, name) == <<"s", "t", "e", "p", "-">> \o FormatInt(n) \o <<"-", "f", "i", "l", "e">>

\* fmt.Sprintf("step-%d-file-%s", n, name)
FileKey(n, name) == <<"s", "t", "e", "p", "-">> \o FormatInt(n) \o <<"-", "f", "i", "l", "e", "-">> \o name

\* fmt.Sprintf("step-%d-note", n)
NoteKey(n) == <<"s", "t", "e", "p", "-">> \o FormatInt(n) \o <<"-", "n", "o", "t", "e">>

\* fmt.Sprintf("step-%d-weight", n)
WeightKey(n) == <<"s", "t", "e", "p", "-">> \o FormatInt(n) \o <<"-", "w", "e", "i", "g", "h", "t">>

AddNoFiles(v, step, order) == v

RECURSIVE AddFiles(_, _, _)
\* the loop over step.Files, visiting the names in the given order
AddFiles(v, step, order) ==
    IF order = <<>> THEN v
    ELSE AddFiles(Add(v, FileKey(step.Step, Head(order)), step.Files[Head(order)]),
                  step, Tail(order))

RECURSIVE AddSteps(_, _, _)
\* the loop over the steps; orders[i] is the order in which the file map of
\* the i-th of the remaining steps is iterated
AddSteps(v, steps, orders) ==
    IF steps = <<>> THEN v
    ELSE LET step == Head(steps)
             noted == Add(v, NoteKey(step.Step), step.Note)
             weighed == Add(noted, WeightKey(step.Step), FormatInt(step.Weight))
         IN  AddSteps(AddFiles(weighed, step, Head(orders)), Tail(steps), Tail(orders))

\* the url.Values that ComputeSignature builds
Values(problem, steps, orders) ==
    LET v1 == Add(<<>>, <<"i", "d">>, FormatInt(problem.ID))
        v2 == Add(v1, <<"u", "n", "i", "q", "u", "e">>, problem.Unique)
        v3 == Add(v2, <<"n", "o", "t", "e">>, problem.Note)
        v4 == Add(v3, <<"p", "r", "o", "b", "l", "e", "m", "T", "y", "p", "e">>, problem.ProblemType)
        v5 == Set(v4, <<"t", "a", "g", "s">>, problem.Tags)
        v6 == Set(v5, <<"o", "p", "t", "i", "o", "n", "s">>, problem.Options)
        v7 == Add(v6, <<"c", "r", "e", "a", "t", "e", "d", "A", "t">>, Format(Round(problem.CreatedAt)))
        v8 == Add(v7, <<"u", "p", "d", "a", "t", "e", "d", "A", "t">>, Format(Round(problem.UpdatedAt)))
    IN  AddSteps(v8, steps, orders)

\* the escaped form of a character: reserved characters become % and two
\* hexadecimal digits
escapeChar(c) ==
    CASE c = "%" -> <<"%", "2", "5">>
      [] c = "&" -> <<"%", "2", "6">>
      [] c = "/" -> <<"%", "2", "F">>
      [] c = "=" -> <<"%", "3", "D">>
      [] OTHER -> <<c>>

RECURSIVE escape(_)
escape(s) == IF s = <<>> THEN <<>> ELSE escapeChar(Head(s)) \o escape(Tail(s))

RECURSIVE insert(_, _)
\* the sorted keys with one more key put at its place
insert(sorted, key) ==
    IF sorted = <<>> THEN <<key>>
    ELSE IF Less(key, Head(sorted)) THEN <<key>> \o sorted
    ELSE <<Head(sorted)>> \o insert(Tail(sorted), key)

RECURSIVE sortStrings(_)
\* the keys in increasing order
sortStrings(keys) ==
    IF keys = {} THEN <<>>
    ELSE LET key == CHOOSE k \in keys : TRUE
         IN  insert(sortStrings(keys \ {key}), key)

RECURSIVE encodeValues(_, _, _)
\* key=value for each value of a key, joined to the buffer by &
encodeValues(buf, prefix, values) ==
    IF values = <<>> THEN buf
    ELSE encodeValues((IF buf = <<>> THEN buf ELSE buf \o <<"&">>)
                          \o prefix \o escape(Head(values)),
                      prefix, Tail(values))

RECURSIVE encodeKeys(_, _, _)
encodeKeys(buf, v, keys) ==
    IF keys = <<>> THEN buf
    ELSE encodeKeys(encodeValues(buf, escape(Head(keys)) \o <<"=">>, v[Head(keys)]),
                    v, Tail(keys))

\* the canonical string of the values: the keys sorted, the values of a key
\* in their order, everything escaped
encode(v) == encodeKeys(<<>>, v, sortStrings(DOMAIN v))

\* the HMAC, taken as injective: the pair of the secret and the data
hmac(secret, data) == <<secret, data>>

ComputeSignature(secret, problem, steps, orders) ==
    hmac(secret, encode(Values(problem, steps, orders)))

\* the orders in which a map with these keys may be iterated
IterationOrders(keys) ==
    { order \in [1..Cardinality(keys) -> keys] :
        \A i, j \in DOMAIN order : order[i] = order[j] => i = j }

\* one iteration order of the file map for each step
Orders(steps) ==
    { orders \in [DOMAIN steps -> UNION {IterationOrders(DOMAIN steps[i].Files) :
                                            i \in DOMAIN steps}] :
        \A i \in DOMAIN steps : orders[i] \in IterationOrders(DOMAIN steps[i].Files) }

\* problems: created no later than updated, tags sorted
SignedProblems ==
    { [ID |-> 1, Unique |-> <<"u">>, Note |-> <<"n">>, ProblemType |-> <<"t">>,
       Tags |-> <<tag>>, Options |-> <<>>, CreatedAt |-> created, UpdatedAt |-> updated] :
        tag \in {<<"a">>, <<"b">>}, created \in {0, 4, 5}, updated \in {5, 9} }

\* the steps a problem may have at one position: two files, and notes,
\* weights and contents that differ in one character
SignedStep(n) ==
    { [Step |-> n, Note |-> <<"n">>, Weight |-> 1,
       Files |-> [name \in {mainPy, utilPy} |-> IF name = mainPy THEN <<"a">> ELSE <<"b">>]],
      [Step |-> n, Note |-> <<"m">>, Weight |-> 1,
       Files |-> [name \in {mainPy, utilPy} |-> IF name = mainPy THEN <<"a">> ELSE <<"b">>]],
      [Step |-> n, Note |-> <<"n">>, Weight |-> 2,
       Files |-> [name \in {mainPy, utilPy} |-> IF name = mainPy THEN <<"a">> ELSE <<"b">>]],
      [Step |-> n, Note |-> <<"n">>, Weight |-> 1,
       Files |-> [name \in {mainPy, utilPy} |-> <<"b">>]] }

\* a later step that adds nothing but a new version of one file
LaterStep(n) ==
    [Step |-> n, Note |-> <<"n">>, Weight |-> 1, Files |-> [name \in {mainPy} |-> <<"b">>]]

SignedStepLists ==
    { <<first>> : first \in SignedStep(1) }
    \cup { <<first, LaterStep(2)>> : first \in SignedStep(1) }

Signed == { [problem |-> problem, steps |-> steps] :
              problem \in SignedProblems, steps \in SignedStepLists }

CallComputeSignature ==
    /\ call.fn = "ComputeSignature"
    /\ call.pc = "called"
    /\ \E first \in Orders(call.content.steps), second \in Orders(call.other.steps) :
        call' = [call EXCEPT
            !.pc = "returned",
            !.orders = <<first, second>>,
            !.sigs = << ComputeSignature(call.secret, call.content.problem,
                                         call.content.steps, first),
                        ComputeSignature(call.secret, call.other.problem,
                                         call.other.steps, second) >>]
    /\ UNCHANGED <<commits, nextID, clock, resp, inflight>>

\* a timestamp as it is stored and transmitted: seconds, fraction, zone
TimestampText(t) == FormatInt(t \div 10) \o <<".">> \o FormatInt(t % 10) \o <<"Z">>

RECURSIVE StepTexts(_)
\* the note, the weight and the file contents of each step
StepTexts(steps) ==
    IF steps = <<>> THEN <<>>
    ELSE << Head(steps).Note, FormatInt(Head(steps).Weight), Head(steps).Files[mainPy] >>
         \o (IF utilPy \in DOMAIN Head(steps).Files
             THEN <<Head(steps).Files[utilPy]>> ELSE <<>>)
         \o StepTexts(Tail(steps))

\* the texts a mutation may touch: the timestamps, the tag, and the note,
\* weight and file contents of each step
Texts(x) ==
    << TimestampText(x.problem.CreatedAt), TimestampText(x.problem.UpdatedAt),
       x.problem.Tags[1] >> \o StepTexts(x.steps)

OneCharApart(s, t) ==
    /\ Len(s) = Len(t)
    /\ Cardinality({i \in 1..Len(s) : s[i] # t[i]}) = 1

\* y is x with a single character of a single text changed
Mutated(x, y) ==
    /\ Len(x.steps) = Len(y.steps)
    /\ \E i \in 1..Len(Texts(x)) :
        /\ OneCharApart(Texts(x)[i], Texts(y)[i])
        /\ \A j \in 1..Len(Texts(x)) : j # i => Texts(x)[j] = Texts(y)[j]

\* the signature is computed for a problem and for the same problem again
\* or a mutation of it
InitSignature ==
    /\ commits = {}
    /\ nextID = 1
    /\ clock = 0
    /\ resp = NoResponse
    /\ inflight = [s \in Slots |-> Idle]
    /\ call \in { [fn |-> "ComputeSignature", pc |-> "called", secret |-> "secret",
                    content |-> p[1], other |-> p[2], orders |-> <<>>, sigs |-> <<>>] :
                  p \in {q \in Signed \X Signed : q[1] = q[2] \/ Mutated(q[1], q[2])} }

NextSignature == CallComputeSignature

SpecSignature == InitSignature /\ [][NextSignature]_vars

\* the canonical string a signature was computed over
Canonical(sig) == sig[2]

\* a timestamp of y differs from that of x and rounds to the same second
TimestampRoundsAlike(x, y) ==
    \/ /\ x.problem.CreatedAt # y.problem.CreatedAt
       /\ Round(x.problem.CreatedAt) = Round(y.problem.CreatedAt)
    \/ /\ x.problem.UpdatedAt # y.problem.UpdatedAt
       /\ Round(x.problem.UpdatedAt) = Round(y.problem.UpdatedAt)

\* C18 as stated: two problems that differ by a single-character mutation of
\* a file's contents, a step note, a step weight, a tag or a timestamp have
\* different canonical strings and different signatures under one secret
MutationChangesSignature ==
    (Returned("ComputeSignature") /\ Mutated(call.content, call.other)) =>
        /\ Canonical(call.sigs[1]) # Canonical(call.sigs[2])
        /\ call.sigs[1] # call.sigs[2]

\* C18: two problems that differ by a single-character mutation have
\* different canonical strings and signatures, except when the mutation is
\* of a timestamp and leaves its value rounded to the second unchanged: then
\* the canonical strings and the signatures are the same
MutationChangesSignatureUnlessRounded ==
    (Returned("ComputeSignature") /\ Mutated(call.content, call.other)) =>
        IF TimestampRoundsAlike(call.content, call.other)
        THEN call.sigs[1] = call.sigs[2]
        ELSE /\ Canonical(call.sigs[1]) # Canonical(call.sigs[2])
             /\ call.sigs[1] # call.sigs[2]

\* the signatures of a problem and of its mutation in the contents of one
\* file were computed, and differ
MutationChangesSignatureWitness ==
    /\ Returned("ComputeSignature")
    /\ Mutated(call.content, call.other)
    /\ call.content.problem = call.other.problem
    /\ call.content.steps[1].Files # call.other.steps[1].Files
    /\ call.sigs[1] # call.sigs[2]

\* C19: two computations of the signature of the same problem and steps
\* under the same secret give the same signature, in whatever order each
\* iterates the file map of each step
SignatureDeterministic ==
    (Returned("ComputeSignature") /\ call.content = call.other) =>
        call.sigs[1] = call.sigs[2]

\* the signature of one problem was computed twice, iterating the two files
\* of its first step in opposite orders
SignatureDeterministicWitness ==
    /\ Returned("ComputeSignature")
    /\ call.content = call.other
    /\ call.orders[1][1] # call.orders[2][1]
    /\ Len(call.content.steps) = 2
    /\ call.sigs[1] = call.sigs[2]

----------------------------------------------------------------------------
(* The workspace resolver of the grind client (findDotFile in              *)
(* src/unnamed/part_000).  A directory path is absolute or relative to the  *)
(* working directory, and lists the names below its origin.                 *)

\* the directories from the root down to a problem directory
Chain == <<"home", "set", "problem">>

\* the locations of the file system: the root and the directories below it
Locations == {SubSeq(Chain, 1, n) : n \in 0..Len(Chain)}

\* the metadata file of a directory: absent, present and well formed,
\* present and not valid JSON, or in a directory that cannot be searched
FileSystems == [Locations -> {"absent", "present", "unparsable", "denied"}]

DirPath(abs, names) == [abs |-> abs, names |-> names]

\* the working directory and the starting directory given: an absolute path
\* of a location, or the path of a location relative to the working directory
StartDirs ==
    { [cwd |-> <<>>, dir |-> DirPath(TRUE, names)] : names \in Locations }
    \cup { [cwd |-> SubSeq(Chain, 1, n), dir |-> DirPath(FALSE, SubSeq(Chain, n + 1, m))] :
             n \in 0..Len(Chain), m \in 0..Len(Chain) }

\* filepath.Abs
Abs(cwd, dir) == IF dir.abs THEN dir ELSE DirPath(TRUE, cwd \o dir.names)

DirSkipsLevel(dir) == DirPath(dir.abs, SubSeq(dir.names, 1, Len(dir.names) - 2))

\* filepath.Dir of an absolute path: the parent, the root for the root
Dir(dir) == DirPath(dir.abs, SubSeq(dir.names, 1, Len(dir.names) - 1))

\* os.Stat of the metadata file of a directory
Stat(fs, cwd, dir) ==
    LET found == fs[Abs(cwd, dir).names]
    IN  IF found = "absent" THEN "not exist"
        ELSE IF found = "denied" THEN "error"
        ELSE "ok"

\* the empty string as a path
EmptyPath == [empty |-> TRUE]

Fatal == [status |-> "fatal", problemSetDir |-> EmptyPath, problemDir |-> EmptyPath]

RECURSIVE Search(_, _, _, _, _)
\* the loop of findDotFile from one probe on, and the parsing of the file
Search(fs, cwd, abs, problemSetDir, problemDir) ==
    IF Stat(fs, cwd, problemSetDir) = "not exist"
    THEN LET probed == IF abs THEN problemSetDir ELSE Abs(cwd, problemSetDir)
         IN  IF Dir(probed) = probed
             THEN Fatal
             ELSE Search(fs, cwd, TRUE, Dir(probed), probed)
    ELSE IF Stat(fs, cwd, problemSetDir) = "error"
    THEN Fatal
    ELSE IF fs[Abs(cwd, problemSetDir).names] = "unparsable"
    THEN Fatal
    ELSE [status |-> "ok", problemSetDir |-> problemSetDir, problemDir |-> problemDir]

findDotFile(fs, cwd, startDir) == Search(fs, cwd, FALSE, startDir, EmptyPath)

CallFindDotFile ==
    /\ call.fn = "findDotFile"
    /\ call.pc = "called"
    /\ call' = [call EXCEPT !.pc = "returned",
                             !.result = findDotFile(call.fs, call.cwd, call.startDir)]
    /\ UNCHANGED <<commits, nextID, clock, resp, inflight>>

InitFindDotFile ==
    /\ commits = {}
    /\ nextID = 1
    /\ clock = 0
    /\ resp = NoResponse
    /\ inflight = [s \in Slots |-> Idle]
    /\ call \in { [fn |-> "findDotFile", pc |-> "called", fs |-> fs, cwd |-> start.cwd,
                    startDir |-> start.dir, result |-> <<>>] :
                  fs \in FileSystems, start \in StartDirs }

NextFindDotFile == CallFindDotFile

SpecFindDotFile == InitFindDotFile /\ [][NextFindDotFile]_vars

\* the location a returned path names
Location(dir) == Abs(call.cwd, dir).names

\* location a is location b or above it
Above(a, b) == Len(a) <= Len(b) /\ SubSeq(b, 1, Len(a)) = a

\* C20: when findDotFile succeeds, the problem-set directory it returns is
\* the nearest of the start directory and its ancestors that contains the
\* metadata file, and the problem directory it returns is empty if that is
\* the start directory and else the child of the problem-set directory on
\* the path to the start directory
NearestDotFile ==
    (Returned("findDotFile") /\ call.result.status = "ok") =>
        LET start == Location(call.startDir)
            found == Location(call.result.problemSetDir)
        IN  /\ Above(found, start)
            /\ call.fs[found] = "present"
            /\ \A other \in Locations :
                (Above(other, start) /\ call.fs[other] # "absent") =>
                    Above(other, found)
            /\ IF found = start
               THEN call.result.problemDir = EmptyPath
               ELSE /\ call.result.problemDir # EmptyPath
                    /\ Location(call.result.problemDir)
                           = SubSeq(start, 1, Len(found) + 1)

\* started two levels below a problem set given by a relative path, with a
\* second metadata file further up: the nearer one is returned
NearestDotFileWitness ==
    /\ Returned("findDotFile")
    /\ call.result.status = "ok"
    /\ ~call.startDir.abs
    /\ Location(call.startDir) = Chain
    /\ call.fs[<<>>] = "present"
    /\ Location(call.result.problemSetDir) = <<"home">>
    /\ Location(call.result.problemDir) = <<"home", "set">>

----------------------------------------------------------------------------
(* Merging and replacing commits *)

\* request bodies of the runs that follow what a write keeps of the commit
\* before it: two versions of the files with their own Action, Comment and
\* Score, with and without a grading result
PayloadsMerging ==
    { Payload(e, step, g) :
        e \in {c \in Contents : c.Submission # NoFiles}, step \in Steps,
        g \in {x \in Gradings : x.Closed = (x.ReportCard # nil)} }

PostMerging == PostOver({1}, PayloadsMerging, {"none"})

NextMerge == PostMerging \/ Tick

SpecMerge == Init /\ [][NextMerge]_vars

\* this step serves the submission of commit for assignmentID, and accepts it
Submitted(assignmentID, commit) ==
    /\ \E userID \in Users : PostUserAssignmentCommit(userID, assignmentID, commit, "none")
    /\ Accepted(resp')

\* C21: a submission merged into the open commit (same step, not timed out)
\* is stored under the open commit's ID and CreatedAt with the incoming
\* Submission, Action, Comment, ReportCard and Transcript, and adds no row
MergeOverwrites ==
    [][\A commit \in PayloadsMerging : \A oc \in OpenRows(commits, 1) :
        (/\ Submitted(1, commit)
         /\ oc.ProblemStepNumber = commit.ProblemStepNumber
         /\ clock - oc.UpdatedAt <= openCommitTimeout)
        => /\ resp'.id = oc.ID
           /\ Cardinality(commits') = Cardinality(commits)
           /\ Row(commits', oc.ID).CreatedAt = oc.CreatedAt
           /\ Row(commits', oc.ID).Submission = commit.Submission
           /\ Row(commits', oc.ID).Action = commit.Action
           /\ Row(commits', oc.ID).Comment = commit.Comment
           /\ Row(commits', oc.ID).ReportCard = commit.ReportCard
           /\ Row(commits', oc.ID).Transcript = commit.Transcript]_vars

\* the only commit was created by one request and overwritten by a later one
\* that carried other files, an action, a comment and a report card
MergeOverwritesWitness ==
    /\ Accepted(resp)
    /\ resp.old = 0
    /\ Cardinality(commits) = 1
    /\ \E c \in commits :
        /\ c.ID = resp.id
        /\ c.CreatedAt < c.UpdatedAt
        /\ c.Submission = FilesB
        /\ c.Action = "grade"
        /\ c.Comment = "c"
        /\ c.ReportCard = "passed"

\* C22: an accepted submission that finds the open commit stale (timed out,
\* or of another step) leaves it changed in Closed (true) and UpdatedAt (the
\* request time) only, and is stored as a new commit created at the request
\* time under the next serial id, which no stored commit has
StaleCommitClosedAndReplaced ==
    [][(PostStep /\ Accepted(resp'))
        => \A oc \in OpenRows(commits, resp'.assignment) :
            (\/ clock' - oc.UpdatedAt > openCommitTimeout
             \/ oc.ProblemStepNumber # Row(commits', resp'.id).ProblemStepNumber)
            => /\ [oc EXCEPT !.Closed = TRUE, !.UpdatedAt = clock'] \in commits'
               /\ resp'.id # oc.ID
               /\ resp'.id = nextID
               /\ \A c \in commits : c.ID < resp'.id
               /\ Row(commits', resp'.id).CreatedAt = clock'
               /\ Cardinality(commits') = Cardinality(commits) + 1]_vars

\* a stale commit was closed at the request time and replaced by a request
\* whose body carried the id of the stale commit and another CreatedAt
StaleCommitClosedAndReplacedWitness ==
    /\ Accepted(resp)
    /\ resp.old = 1
    /\ resp.id = 2
    /\ Stored(commits, resp.old)
    /\ Stored(commits, resp.id)
    /\ Row(commits, resp.old).Closed
    /\ Row(commits, resp.old).CreatedAt < clock
    /\ Row(commits, resp.old).UpdatedAt = clock
    /\ Row(commits, resp.id).Submission = FilesA
    /\ Row(commits, resp.id).CreatedAt = clock

----------------------------------------------------------------------------
(* Requests for different assignments: each assignment is served to its     *)
(* owner, and the requests in flight at one time are for different          *)
(* assignments.  The requests of such a run arrive within one reading of    *)
(* the clock.                                                               *)

\* request bodies of these runs: ungraded for either step, graded for step 1
PayloadsApart ==
    {commit \in PayloadsInterleaved : ~commit.Closed \/ commit.ProblemStepNumber = 1}

BeginApart ==
    \E s \in Slots, a \in assignments, commit \in PayloadsApart :
        /\ \A t \in Slots \ {s} :
            inflight[t].pc = "read" => inflight[t].assignment # a.ID
        /\ BeginPost(s, a.UserID, a.ID, commit)

NextApart == BeginApart \/ Finish

SpecApart == Init /\ [][NextApart]_vars

\* the requests of these runs
Requests ==
    { [user |-> a.UserID, assignment |-> a.ID, commit |-> commit] :
        a \in assignments, commit \in PayloadsApart }

\* the handler as a relation: the tables (commits and the serial sequence of
\* their ids) that serving request r at time now on the tables s can leave
Outcomes(s, r, now) ==
    IF Lookup(r.user, r.assignment, r.commit, "none").status # StatusOK THEN {s}
    ELSE { LET w == Write(s.commits, s.nextID, openCommit, r.user, r.assignment,
                          r.commit, now, "none")
           IN  [commits |-> transaction(w.status, s.commits, w.db),
                nextID |-> IF w.status = StatusOK /\ w.id = s.nextID
                           THEN s.nextID + 1 ELSE s.nextID] :
           openCommit \in QueryOpenCommit(s.commits, r.assignment) }

\* serving r1 and then r2
OutcomesOfBoth(s, r1, r2, now) ==
    UNION { Outcomes(t, r2, now) : t \in Outcomes(s, r1, now) }

\* the tables without the serial ids: the commits of each assignment with
\* the ID left out, how many they are, and the next id of the sequence
WithoutIDs(s) ==
    [rows |-> [a \in AssignmentIDs |->
                 {[c EXCEPT !.ID = 0] : c \in OpenRowsAnyState(s.commits, a)}],
     count |-> [a \in AssignmentIDs |->
                 Cardinality(OpenRowsAnyState(s.commits, a))],
     nextID |-> s.nextID]

Tables == [commits |-> commits, nextID |-> nextID]

\* a request that wrote left the commits of every other assignment as they were
OtherAssignmentsUntouched ==
    [][\A s \in Slots :
        (inflight[s].pc = "read" /\ inflight'[s].pc = "done")
        => \A a \in AssignmentIDs \ {inflight[s].assignment} :
            OpenRowsAnyState(commits', a) = OpenRowsAnyState(commits, a)]_vars

\* two requests for different assignments leave the same tables in either
\* order
RequestsCommute ==
    \A r1, r2 \in Requests :
        r1.assignment < r2.assignment
        => OutcomesOfBoth(Tables, r1, r2, clock) = OutcomesOfBoth(Tables, r2, r1, clock)

\* two requests for different assignments leave the same tables in either
\* order, the serial ids of the commits apart
RequestsCommuteButForIDs ==
    \A r1, r2 \in Requests :
        r1.assignment < r2.assignment
        => { WithoutIDs(t) : t \in OutcomesOfBoth(Tables, r1, r2, clock) }
           = { WithoutIDs(t) : t \in OutcomesOfBoth(Tables, r2, r1, clock) }

\* C23 as stated: a request for an assignment leaves the commits of every
\* other assignment unchanged, requests for different assignments commute,
\* and every assignment keeps at most one open commit while the requests in
\* flight are for different assignments
AssignmentsIndependent ==
    /\ OtherAssignmentsUntouched
    /\ []RequestsCommute
    /\ []AtMostOneOpenCommit

\* C23: a request for an assignment leaves the commits of every other
\* assignment unchanged, requests for different assignments commute but for
\* the ids their commits draw from the one serial sequence, and every
\* assignment keeps at most one open commit while the requests in flight are
\* for different assignments
AssignmentsIndependentButForIDs ==
    /\ OtherAssignmentsUntouched
    /\ []RequestsCommuteButForIDs
    /\ []AtMostOneOpenCommit

\* a request for assignment 1 wrote a commit while a request for assignment 2,
\* which has an open commit, was in flight
AssignmentsIndependentWitness ==
    /\ Accepted(resp)
    /\ resp.assignment = 1
    /\ resp.id # 0
    /\ \E s, t \in Slots :
        /\ inflight[s].pc = "done" /\ inflight[s].assignment = 1
        /\ inflight[t].pc = "read" /\ inflight[t].assignment = 2
        /\ inflight[t].openCommit.ID # 0
    /\ Cardinality(OpenRows(commits, 1)) = 1
    /\ Cardinality(OpenRows(commits, 2)) = 1

----------------------------------------------------------------------------
(* The open state of an assignment *)

Ungraded(commit) == commit.ReportCard = nil /\ Len(commit.Transcript) = 0

\* the commit the request wrote is the one open commit of its assignment
LeftOpen == OpenRows(commits', resp'.assignment) = {Row(commits', resp'.id)}

\* C24 as stated: after an accepted submission without report card and
\* transcript events, whatever Closed flag its body carried, exactly one
\* commit of the assignment is open and it is the commit the request wrote
UngradedSubmissionLeavesOpen ==
    [][(PostStep /\ Accepted(resp'))
        => \A commit \in {x \in Payloads : Ungraded(x)} :
            Submitted(resp'.assignment, commit) => LeftOpen]_vars

\* C24: after an accepted submission without report card and transcript
\* events whose body carried Closed = FALSE, exactly one commit of the
\* assignment is open and it is the commit the request wrote
UngradedOpenSubmissionLeavesOpen ==
    [][(PostStep /\ Accepted(resp'))
        => \A commit \in {x \in Payloads : Ungraded(x) /\ ~x.Closed} :
            Submitted(resp'.assignment, commit) => LeftOpen]_vars

\* an ungraded submission for another step closed the open commit and is the
\* one open commit of the assignment
UngradedOpenSubmissionLeavesOpenWitness ==
    /\ Accepted(resp)
    /\ resp.old # 0
    /\ Stored(commits, resp.id)
    /\ Row(commits, resp.id).ReportCard = nil
    /\ Row(commits, resp.id).Transcript = <<>>
    /\ Row(commits, resp.id).ProblemStepNumber = 2
    /\ OpenRows(commits, resp.assignment) = {Row(commits, resp.id)}
    /\ Cardinality(commits) = 2

----------------------------------------------------------------------------
(* fixLineEndings and fixNewLines.  File contents are sequences of          *)
(* characters.                                                              *)

CR == "\r"
LF == "\n"
SP == " "

\* the characters of the file contents: a letter, a space, a carriage return
\* and a newline
Chars == {"a", SP, CR, LF}

\* the file contents of at most MaxLen characters
FileTexts == UNION { [1..n -> Chars] : n \in 0..MaxLen }

\* strings.HasPrefix
HasPrefix(s, prefix) ==
    Len(s) >= Len(prefix) /\ SubSeq(s, 1, Len(prefix)) = prefix

\* strings.HasSuffix
HasSuffix(s, suffix) ==
    Len(s) >= Len(suffix) /\ SubSeq(s, Len(s) - Len(suffix) + 1, Len(s)) = suffix

\* strings.Contains
Contains(s, substr) ==
    \E i \in 1..(Len(s) - Len(substr) + 1) : SubSeq(s, i, i + Len(substr) - 1) = substr

\* strings.Replace(s, old, new, -1) for a non-empty old: the occurrences of
\* old that do not overlap, from the left
RECURSIVE Replace(_, _, _)
Replace(s, old, new) ==
    IF Len(s) < Len(old) THEN s
    ELSE IF HasPrefix(s, old) THEN new \o Replace(SubSeq(s, Len(old) + 1, Len(s)), old, new)
    ELSE <<Head(s)>> \o Replace(Tail(s), old, new)

\* for strings.Contains(s, " \n") { s = strings.Replace(s, " \n", "\n", -1) }
RECURSIVE StripTrailingSpaces(_)
StripTrailingSpaces(s) ==
    IF Contains(s, <<SP, LF>>)
    THEN StripTrailingSpaces(Replace(s, <<SP, LF>>, <<LF>>))
    ELSE s

\* for strings.HasSuffix(s, "\n\n") { s = s[:len(s)-1] }
RECURSIVE StripTrailingNewlines(_)
StripTrailingNewlines(s) ==
    IF HasSuffix(s, <<LF, LF>>)
    THEN StripTrailingNewlines(SubSeq(s, 1, Len(s) - 1))
    ELSE s

\* if s == "\n" { s = "" }
EmptyIfNewline(s) == IF s = <<LF>> THEN <<>> ELSE s

fixLineEndings(s) ==
    EmptyIfNewline(StripTrailingNewlines(StripTrailingSpaces(
        Replace(s, <<CR, LF>>, <<LF>>) \o <<LF>>)))

fixNewLines(s) ==
    EmptyIfNewline(StripTrailingNewlines(Replace(s, <<CR, LF>>, <<LF>>) \o <<LF>>))

CallFixLineEndings ==
    /\ call.fn = "fixLineEndings"
    /\ call.pc = "called"
    /\ call' = [call EXCEPT !.pc = "returned", !.result = fixLineEndings(call.s)]
    /\ UNCHANGED <<commits, nextID, clock, resp, inflight>>

CallFixNewLines ==
    /\ call.fn = "fixNewLines"
    /\ call.pc = "called"
    /\ call' = [call EXCEPT !.pc = "returned", !.result = fixNewLines(call.s)]
    /\ UNCHANGED <<commits, nextID, clock, resp, inflight>>

InitFix ==
    /\ commits = {}
    /\ nextID = 1
    /\ clock = 0
    /\ resp = NoResponse
    /\ inflight = [s \in Slots |-> Idle]
    /\ call \in { [fn |-> fn, pc |-> "called", s |-> s, result |-> <<>>] :
                  fn \in {"fixLineEndings", "fixNewLines"}, s \in FileTexts }

NextFix == CallFixLineEndings \/ CallFixNewLines

SpecFix == InitFix /\ [][NextFix]_vars

\* s is as the functions leave a file: without "\r\n" and without two
\* newlines at its end
Normalized(s) == ~Contains(s, <<CR, LF>>) /\ ~HasSuffix(s, <<LF, LF>>)

\* C29: fixLineEndings and fixNewLines are idempotent, and what they return
\* has no "\r\n" and does not end in two newlines
FixIdempotent ==
    /\ Returned("fixLineEndings")
        => fixLineEndings(call.result) = call.result /\ Normalized(call.result)
    /\ Returned("fixNewLines")
        => fixNewLines(call.result) = call.result /\ Normalized(call.result)

----------------------------------------------------------------------------
(* Problem.Normalize and ProblemStep.Normalize.  Notes, tags, file names    *)
(* and file contents are sequences of characters, times are years, weights  *)
(* are whole numbers.                                                       *)

BeginningOfTime == 2016

\* a byte that is not valid UTF-8
InvalidByte == "\\xff"

\* utf8.ValidString
ValidString(s) == \A i \in 1..Len(s) : s[i] # InvalidByte

IsSpace(c) == c \in {SP, CR, LF}

\* strings.TrimSpace
RECURSIVE TrimSpace(_)
TrimSpace(s) ==
    IF s = <<>> THEN s
    ELSE IF IsSpace(Head(s)) THEN TrimSpace(Tail(s))
    ELSE IF IsSpace(s[Len(s)]) THEN TrimSpace(SubSeq(s, 1, Len(s) - 1))
    ELSE s

\* sort.Strings
RECURSIVE Sorted(_)
Sorted(strings) ==
    IF strings = <<>> THEN <<>> ELSE insert(Sorted(Tail(strings)), Head(strings))

docIndexHtml == <<"_", "d", "o", "c", "/", "i", "n", "d", "e", "x", ".", "h", "t", "m", "l">>

ProblemStepDirectoryWhitelist == { <<"i", "n">>, <<"o", "u", "t">>, <<"_", "d", "o", "c">> }

\* the instructions and the error of BuildInstructions: the html document,
\* or the rendered markdown document, when it is valid UTF-8
BuildInstructions(step) ==
    LET found == docIndexHtml \in DOMAIN step.Files \/ docIndexMd \in DOMAIN step.Files
        justHTML == IF docIndexHtml \in DOMAIN step.Files
                    THEN [html |-> step.Files[docIndexHtml]]
                    ELSE [html |-> <<"<", "p", ">">> \o step.Files[docIndexMd]]
    IN  IF ~found THEN [instructions |-> <<>>, err |-> "No documentation found"]
        ELSE IF ~ValidString(justHTML.html)
            THEN [instructions |-> <<>>, err |-> "not valid utf8"]
        ELSE [instructions |-> justHTML.html, err |-> nil]

\* the contents of the file name as ProblemStep.Normalize leaves them
Fixed(name, contents) ==
    LET parts == Split(name, "/")
    IN  IF (Len(parts) < 2 \/ parts[1] \notin ProblemStepDirectoryWhitelist)
           /\ ValidString(contents)
        THEN fixLineEndings(contents)
        ELSE IF ValidString(contents) THEN fixNewLines(contents)
        ELSE contents

\* ProblemStep.Normalize(n): the step as the call leaves it and the error it
\* returns
StepNormalize(step, n) ==
    LET noted == [step EXCEPT !.Step = n, !.Note = TrimSpace(step.Note)]
        built == BuildInstructions(noted)
    IN  IF noted.Note = <<>> THEN [step |-> noted, err |-> "missing note"]
        ELSE IF built.err # nil
            THEN [step |-> noted, err |-> "error building instructions"]
        ELSE [step |-> [noted EXCEPT
                            !.Instructions = built.instructions,
                            !.Weight = IF noted.Weight <= 0 THEN 1 ELSE noted.Weight,
                            !.Files = [name \in DOMAIN noted.Files |->
                                            Fixed(name, noted.Files[name])]],
              err |-> nil]

\* Problem.Normalize(now, steps): the problem and the steps as the call
\* leaves them and the error it returns
ProblemNormalize(problem, now, steps) ==
    LET p1 == [problem EXCEPT !.Unique = TrimSpace(problem.Unique)]
        p2 == [p1 EXCEPT !.Note = TrimSpace(problem.Note)]
        p3 == [p2 EXCEPT
                  !.Tags = Sorted([i \in 1..Len(problem.Tags) |-> TrimSpace(problem.Tags[i])]),
                  !.Options = [i \in 1..Len(problem.Options) |->
                                  TrimSpace(problem.Options[i])]]
        normalized == [n \in 1..Len(steps) |-> StepNormalize(steps[n], n).step]
    IN  IF p1.Unique = <<>>
            THEN [problem |-> p1, steps |-> steps, err |-> "unique ID cannot be empty"]
        ELSE IF escape(p1.Unique) # p1.Unique
            THEN [problem |-> p1, steps |-> steps, err |-> "unique ID must be URL friendly"]
        ELSE IF p2.Note = <<>>
            THEN [problem |-> p2, steps |-> steps, err |-> "note cannot be empty"]
        ELSE IF Len(steps) = 0
            THEN [problem |-> p3, steps |-> steps,
                  err |-> "problem must have at least one step"]
        ELSE IF p3.CreatedAt < BeginningOfTime \/ p3.CreatedAt > now
            THEN [problem |-> p3, steps |-> normalized, err |-> "CreatedAt is invalid"]
        ELSE IF p3.UpdatedAt < p3.CreatedAt \/ p3.UpdatedAt > now
            THEN [problem |-> p3, steps |-> normalized, err |-> "UpdatedAt is invalid"]
        ELSE [problem |-> p3, steps |-> normalized, err |-> nil]

\* a problem that Problem.Normalize accepts
GoodProblem ==
    [Unique |-> <<SP, "u">>, Note |-> <<"n", SP>>,
     Tags |-> << <<"b">>, <<SP, "a">> >>, Options |-> << <<"o", SP>> >>,
     CreatedAt |-> BeginningOfTime, UpdatedAt |-> BeginningOfTime + 1]

\* the time of the calls
Today == BeginningOfTime + 1

\* GoodProblem and the problems that differ from it in one field
Problems ==
    {GoodProblem}
    \cup { [GoodProblem EXCEPT !.Unique = u] : u \in {<<SP>>, <<"a", "/", "b">>} }
    \cup { [GoodProblem EXCEPT !.Note = <<>>] }
    \cup { [GoodProblem EXCEPT !.CreatedAt = t] :
            t \in {BeginningOfTime - 1, BeginningOfTime + 2} }
    \cup { [GoodProblem EXCEPT !.UpdatedAt = t] :
            t \in {BeginningOfTime - 1, BeginningOfTime + 2} }

\* the Files of the steps to normalize: with documentation in markdown,
\* without documentation, and with documentation in html that is not UTF-8
FilesToNormalize ==
    { (mainPy :> <<"a", SP, CR, LF>>) @@ (docIndexMd :> <<"a", CR, LF, LF>>),
      (mainPy :> <<"a", LF>>),
      (docIndexHtml :> <<InvalidByte, CR, LF>>) }

\* the steps to normalize
StepsToNormalize ==
    { [Step |-> 0, Note |-> note, Instructions |-> <<>>, Weight |-> weight, Files |-> files] :
        note \in {<<SP>>, <<SP, "n">>}, weight \in {-1, 0, 2}, files \in FilesToNormalize }

\* the lists of at most MaxSteps steps to normalize
StepListsToNormalize == UNION { [1..n -> StepsToNormalize] : n \in 0..MaxSteps }

CallProblemNormalize ==
    /\ call.fn = "Problem.Normalize"
    /\ call.pc = "called"
    /\ call' = [call EXCEPT !.pc = "returned",
                             !.result = ProblemNormalize(call.problem, call.now, call.steps)]
    /\ UNCHANGED <<commits, nextID, clock, resp, inflight>>

InitNormalize ==
    /\ commits = {}
    /\ nextID = 1
    /\ clock = 0
    /\ resp = NoResponse
    /\ inflight = [s \in Slots |-> Idle]
    /\ call \in { [fn |-> "Problem.Normalize", pc |-> "called", problem |-> problem,
                    now |-> Today, steps |-> steps, result |-> <<>>] :
                  problem \in Problems, steps \in StepListsToNormalize }

NextNormalize == CallProblemNormalize

SpecNormalize == InitNormalize /\ [][NextNormalize]_vars

\* the step is valid as the n-th step of a problem
ValidStep(step, n) == step.Step = n /\ step.Note # <<>> /\ step.Weight > 0

\* C25: when Problem.Normalize returns without error every step has its
\* one-based position as Step, a non-empty Note and a Weight above 0 (1 where
\* it was 0 or less), and a step whose normalization fails makes
\* Problem.Normalize return an error
NormalizedStepsValid ==
    Returned("Problem.Normalize") =>
        /\ call.result.err = nil =>
            \A n \in 1..Len(call.steps) :
                /\ ValidStep(call.result.steps[n], n)
                /\ call.steps[n].Weight <= 0 => call.result.steps[n].Weight = 1
        /\ (\E n \in 1..Len(call.steps) : StepNormalize(call.steps[n], n).err # nil)
            => call.result.err # nil

----------------------------------------------------------------------------
(* Timestamps of the stored commits *)

\* every stored commit was created no later than it was last updated, and
\* updated no later than now
TimestampsOrdered ==
    \A c \in commits : c.CreatedAt <= c.UpdatedAt /\ c.UpdatedAt <= clock

\* the commit a request saved and the commit it closed carry the time of the
\* request as UpdatedAt
WrittenAtRequestTime ==
    [][(PostStep /\ Accepted(resp'))
        => /\ Row(commits', resp'.id).UpdatedAt = clock'
           /\ resp'.old # 0 => Row(commits', resp'.old).UpdatedAt = clock']_vars

\* C26: a commit written by a request (inserted, merged into, or closed as
\* stale) has the time of that request as UpdatedAt, and every stored commit
\* has CreatedAt <= UpdatedAt, whatever timestamps the request bodies carried
TimestampsFromRequests == WrittenAtRequestTime /\ []TimestampsOrdered

\* a request whose body carried CreatedAt 21 and UpdatedAt 1 was merged, at
\* the timeout, into the commit created at time 0
TimestampsFromRequestsWitness ==
    /\ Accepted(resp)
    /\ resp.old = 0
    /\ Stored(commits, resp.id)
    /\ Row(commits, resp.id).Submission = FilesA
    /\ Row(commits, resp.id).CreatedAt = 0
    /\ Row(commits, resp.id).UpdatedAt = openCommitTimeout
    /\ clock = openCommitTimeout

----------------------------------------------------------------------------
(* GetUserMeAssignmentCommitLast *)

\* SELECT * FROM commits WHERE user_id = $1 AND assignment_id = $2
\* ORDER BY created_at DESC LIMIT 1: any one of the matching rows that no
\* other matching row follows in the order
QueryLast(db, userID, assignmentID) ==
    LET rows == {c \in db : c.UserID = userID /\ c.AssignmentID = assignmentID}
    IN  {c \in rows : \A d \in rows : d.CreatedAt <= c.CreatedAt}

Found == [status |-> StatusOK, failed |-> "none", trace |-> <<"last">>]

NotFound == [status |-> StatusNotFound, failed |-> "none", trace |-> <<"last">>]

\* the response names the commit returned (id)
GetUserMeAssignmentCommitLast(userID, assignmentID) ==
    /\ IF QueryLast(commits, userID, assignmentID) = {}
       THEN resp' = Response("last", assignmentID, NoCommit, NotFound, 0, 0)
       ELSE \E commit \in QueryLast(commits, userID, assignmentID) :
                resp' = Response("last", assignmentID, commit, Found, commit.ID, 0)
    /\ UNCHANGED <<commits, nextID, clock, inflight, call>>

\* the submissions of one user for one assignment, all accepted, and the
\* queries for the most recent commit
PostAccepted == PostOver({1}, PayloadsInterleaved, {"none"})

GetLast == \E userID \in Users : GetUserMeAssignmentCommitLast(userID, 1)

NextLast == PostAccepted \/ GetLast \/ Tick

SpecLast == Init /\ [][NextLast]_vars

\* C27: the query for the most recent commit, served after an accepted
\* submission, returns the commit that submission wrote
LastIsLatestSubmission ==
    [][(Accepted(resp) /\ resp'.op = "last")
        => (resp'.status = StatusOK /\ resp'.id = resp.id)]_vars

----------------------------------------------------------------------------
(* The loop of findDotFile, one probe at a time.  The call records the      *)
(* locations it has probed.                                                 *)

\* one iteration of the loop: the probe of problemSetDir and what follows it
Probe ==
    /\ call.fn = "findDotFile"
    /\ call.pc = "probing"
    /\ LET stat == Stat(call.fs, call.cwd, call.problemSetDir)
           here == IF call.abs THEN call.problemSetDir
                               ELSE Abs(call.cwd, call.problemSetDir)
           probed == Append(call.probed, Abs(call.cwd, call.problemSetDir).names)
       IN  call' =
             IF stat = "not exist"
             THEN [call EXCEPT !.pc = IF Dir(here) = here THEN "fatal" ELSE "probing",
                               !.abs = TRUE,
                               !.problemSetDir = Dir(here),
                               !.problemDir = here,
                               !.probed = probed]
             ELSE IF stat = "error"
             THEN [call EXCEPT !.pc = "fatal", !.probed = probed]
             ELSE [call EXCEPT !.pc = "found", !.probed = probed]
    /\ UNCHANGED <<commits, nextID, clock, resp, inflight>>

InitProbe ==
    /\ commits = {}
    /\ nextID = 1
    /\ clock = 0
    /\ resp = NoResponse
    /\ inflight = [s \in Slots |-> Idle]
    /\ call \in { [fn |-> "findDotFile", pc |-> "probing", fs |-> fs, cwd |-> start.cwd,
                    startDir |-> start.dir, abs |-> FALSE, problemSetDir |-> start.dir,
                    problemDir |-> EmptyPath, probed |-> <<>>] :
                  fs \in FileSystems, start \in StartDirs }

NextProbe == Probe

\* the loop runs on while it has not come to its end
SpecProbe == InitProbe /\ [][NextProbe]_vars /\ WF_vars(Probe)

Probing == call.fn = "findDotFile" /\ call.pc = "probing"

\* the location probed last
LastProbed == call.probed[Len(call.probed)]

SearchEnds == <>(call.pc \in {"found", "fatal"})

NoDirectoryProbedTwice ==
    \A i, j \in 1..Len(call.probed) : call.probed[i] = call.probed[j] => i = j

\* a probe that finds no file and is followed by another moves to the parent
\* directory
UnsuccessfulProbeMovesUp ==
    [][(Probing /\ call'.pc = "probing")
        => LET from == Abs(call.cwd, call.problemSetDir).names
               to == Abs(call.cwd, call'.problemSetDir).names
           IN  /\ call.fs[from] = "absent"
               /\ Len(from) > 0
               /\ to = SubSeq(from, 1, Len(from) - 1)]_vars

\* the search found the file in the directory probed last
FoundFile == call.pc = "found" /\ call.fs[LastProbed] \in {"present", "unparsable"}

\* the search failed at the root, having found the file nowhere
FailedAtRoot ==
    /\ call.pc = "fatal"
    /\ LastProbed = <<>>
    /\ \A i \in 1..Len(call.probed) : call.fs[call.probed[i]] = "absent"

\* the search failed on a probe that ended with an error other than the
\* absence of the file
FailedOnError == call.pc = "fatal" /\ call.fs[LastProbed] = "denied"

============================================================================
